---- MODULE Spec2Model ----
(***************************************************************************)
(* Model of the adversarial search engine of lineEmUp.py (class Game):     *)
(* the board, the line reader, the terminal detector with its caches, the  *)
(* heuristic e1, and the minimax and alpha-beta searches.                   *)
(*                                                                         *)
(* A board is current_state: a sequence of n rows of n cells, the cell     *)
(* current_state[x][y] of the source being board[x+1][y+1] here.           *)
(* Scores are kept as integers: every score of the source is a number      *)
(* divided by 10^s (clamp), or one of -2,-1,0,1,2; the model holds the      *)
(* score multiplied by 10^s, which keeps every comparison of the source.   *)
(***************************************************************************)
EXTENDS Integers, Sequences, FiniteSets, TLC

VARIABLES
  n,        \* Game.n, the size of the board
  s,        \* Game.s, the length of the winning line
  blocs,    \* Game.blocs, the list of the blocked cells
  board,    \* Game.current_state
  err,      \* how the constructor ended: "ok" or the message of the exception
  result,   \* Game.result, what check_end last got from is_end
  eval_res, \* what a call of Game.e1 on board returned, times 10^s
  mm_res,   \* what a root call of Game.minimax on board returned
  ab_res,   \* what a root call of Game.alphabeta on board returned
  stack,        \* the calls of minimax or alphabeta in progress, the root first
  state_end,    \* Game.state_end, the cache of is_end
  state_lines,  \* Game.state_lines, the cache of read_all_lines
  state_eval1,  \* Game.state_eval1, the cache of e1
  turn_stats,   \* Game.turn_stats
  pc,           \* where Game.play stands
  active_player, \* Game.active_player: "X" for player_x, "O" for player_o
  player_x,     \* Game.player_x
  player_o,     \* Game.player_o
  recommend,    \* Game.recommend
  time_left,    \* the time checks of the search in progress that still find
                \* time left: 0 when the time is up, -1 when it never is
  move          \* (m, x, y) as Game.play got them from the search

play_vars == <<stack, state_end, state_lines, state_eval1, turn_stats, pc,
               active_player, player_x, player_o, recommend, time_left, move>>

vars == <<n, s, blocs, board, err, result, eval_res, mm_res, ab_res,
          stack, state_end, state_lines, state_eval1, turn_stats, pc,
          active_player, player_x, player_o, recommend, time_left, move>>

Pow10(k) == 10 ^ k

(* the count of diagonals taken one winning length too short *)
max_diag_short(nn, ss) == 2 * nn - 1 - 2 * ss

(* Game.__init__, line 133 *)
max_diag(nn, ss) == 2 * nn - 1 - 2 * (ss - 1)

(* Game.__init__, line 134: int((max_diag - 1) / 2), truncation toward 0 *)
split_diag(nn, ss) ==
  LET m == max_diag(nn, ss) - 1
  IN IF m >= 0 THEN m \div 2 ELSE -((-m) \div 2)

(* the while loop of a diagonal walk: cells read from (x, y) in steps of
   (+1, dy) while both coordinates are in range *)
RECURSIVE Walk(_, _, _, _)
Walk(b, x, y, dy) ==
  IF 0 <= x /\ x < Len(b) /\ 0 <= y /\ y < Len(b)
  THEN <<b[x + 1][y + 1]>> \o Walk(b, x + 1, y + dy, dy)
  ELSE <<>>

(* the inner for loop of lines 234-236: row holds current_state[y][x] and col
   holds current_state[x][y] for y = 0..n-1 *)
RECURSIVE Row(_, _, _)
Row(b, x, y) ==
  IF y >= Len(b) THEN <<>> ELSE <<b[y + 1][x + 1]>> \o Row(b, x, y + 1)

RECURSIVE Col(_, _, _)
Col(b, x, y) ==
  IF y >= Len(b) THEN <<>> ELSE <<b[x + 1][y + 1]>> \o Col(b, x, y + 1)

MainDiag(b, ss, d) ==
  LET nn == Len(b)
      sp == split_diag(nn, ss)
  IN IF d < sp THEN Walk(b, (nn - ss) - d, 0, 1)
               ELSE Walk(b, 0, d - sp, 1)

(* the second diagonals started one column too far *)
SecondDiagShifted(b, ss, d) ==
  LET nn == Len(b)
      sp == split_diag(nn, ss)
  IN IF d <= sp THEN Walk(b, 0, ss + d, -1)
                ELSE Walk(b, d - sp, nn - 1, -1)

SecondDiag(b, ss, d) ==
  LET nn == Len(b)
      sp == split_diag(nn, ss)
  IN IF d <= sp THEN Walk(b, 0, (ss - 1) + d, -1)
                ELSE Walk(b, d - sp, nn - 1, -1)

RECURSIVE RowsCols(_, _)
RowsCols(b, x) ==
  IF x >= Len(b) THEN <<>>
  ELSE <<Row(b, x, 0), Col(b, x, 0)>> \o RowsCols(b, x + 1)

RECURSIVE Diags(_, _, _, _)
Diags(b, ss, d, second) ==
  IF d >= max_diag(Len(b), ss) THEN <<>>
  ELSE <<IF second THEN SecondDiag(b, ss, d) ELSE MainDiag(b, ss, d)>>
       \o Diags(b, ss, d + 1, second)

(* Game.read_all_lines without callback and without cache: the list lines *)
read_all_lines(b, ss) ==
  RowsCols(b, 0) \o Diags(b, ss, 0, FALSE) \o Diags(b, ss, 0, TRUE)

(* The geometry of the lines: read_all_lines applied to the board whose
   cells hold their own coordinates. The walk of read_all_lines does not look
   at the cells, so the lines of any board are these coordinates read off it. *)
RECURSIVE CoordRow(_, _, _)
CoordRow(nn, x, y) ==
  IF y > nn THEN <<>> ELSE <<(<<x, y>>)>> \o CoordRow(nn, x, y + 1)

RECURSIVE CoordRows(_, _)
CoordRows(nn, x) ==
  IF x > nn THEN <<>> ELSE <<CoordRow(nn, x, 1)>> \o CoordRows(nn, x + 1)

CoordBoard(nn) == CoordRows(nn, 1)

MinN == 3
MaxN == 10

(* a sequence given as a function, with its elements computed *)
Computed(f) == f \o <<>>

(* Geometry[n][s] for n in 1..MaxN and s in 1..n *)
Geometry ==
  Computed([nn \in 1..MaxN |->
    Computed([ss \in 1..nn |-> read_all_lines(CoordBoard(nn), ss)])])

(* the list lines of read_all_lines, read through the geometry *)
Lines(b, ss) ==
  LET g == Geometry[Len(b)][ss]
  IN [k \in 1..Len(g) |-> [m \in 1..Len(g[k]) |-> b[g[k][m][1]][g[k][m][2]]]]

(* a run one cell short of ss taken for a winning run *)
HasRunShort(line, sym, ss) ==
  \E k \in 0..(Len(line) - (ss - 1)) : \A m \in 1..(ss - 1) : line[k + m] = sym

(* sym * ss in ''.join(line) *)
HasRun(line, sym, ss) ==
  \E k \in 0..(Len(line) - ss) : \A m \in 1..ss : line[k + m] = sym

(* is_end.check_win *)
check_win(line, ss) ==
  IF HasRun(line, "X", ss) THEN "X"
  ELSE IF HasRun(line, "O", ss) THEN "O"
  ELSE "none"

(* read_all_lines(check_win): the callback sees, for each x, the column and
   then the row (lines holds the row first), then the diagonals in order; the
   first line with a winner ends the scan *)
CallbackIndex(nn, k) ==
  IF k > 2 * nn THEN k ELSE IF k % 2 = 1 THEN k + 1 ELSE k - 1

Least(S) == CHOOSE m \in S : \A o \in S : m <= o

FirstWin(ls, ss) ==
  LET nn == Len(ls[1])
      won == {k \in 1..Len(ls) : check_win(ls[CallbackIndex(nn, k)], ss) # "none"}
  IN IF won = {} THEN "none"
     ELSE check_win(ls[CallbackIndex(nn, Least(won))], ss)

(* Game.is_full *)
is_full(ls) ==
  \A k \in 1..Len(ls) : \A m \in 1..Len(ls[k]) : ls[k][m] # "."

(* Game.is_end computed by scanning (no cache): "X", "O", "." (tie) or
   "none" (None, the game goes on) *)
ScanEnd(b, ss) ==
  LET ls == Lines(b, ss)
      w == FirstWin(ls, ss)
  IN IF w # "none" THEN w
     ELSE IF is_full(ls) THEN "." ELSE "none"

(* Game.validate: the message of the exception raised, or "ok" *)
validate(nn, ss, bl) ==
  IF nn > MaxN \/ nn < MinN THEN "Invalid board size"
  ELSE IF Len(bl) > 2 * nn THEN "Too many blocs"
  ELSE IF ss > nn THEN "Invalid size of winning line"
  ELSE "ok"

(* Game.initialize_game, lines 171-188: current_state[y][x] is '*' when
   (y, x) is one of the blocs and '.' otherwise *)
RECURSIVE InitRow(_, _, _, _)
InitRow(nn, bl, y, x) ==
  IF x >= nn THEN <<>>
  ELSE <<IF \E m \in 1..Len(bl) : bl[m] = <<y, x>> THEN "*" ELSE ".">>
       \o InitRow(nn, bl, y, x + 1)

RECURSIVE InitRows(_, _, _)
InitRows(nn, bl, y) ==
  IF y >= nn THEN <<>> ELSE <<InitRow(nn, bl, y, 0)>> \o InitRows(nn, bl, y + 1)

initialize_game(nn, bl) == InitRows(nn, bl, 0)

EmptyBoard(nn) == initialize_game(nn, <<>>)

Put(b, i, j, sym) == [b EXCEPT ![i + 1][j + 1] = sym]

(* the groups of itertools.groupby(line): the length of the run of equal
   cells that starts at position m *)
RECURSIVE RunLen(_, _)
RunLen(line, m) ==
  IF m < Len(line) /\ line[m + 1] = line[m] THEN 1 + RunLen(line, m + 1) ELSE 1

RECURSIVE SumRuns(_, _)
SumRuns(line, m) ==
  IF m > Len(line) THEN 0
  ELSE LET c == RunLen(line, m)
           w == IF line[m] = "O" THEN Pow10(c)
                ELSE IF line[m] = "X" THEN -Pow10(c) ELSE 0
       IN w + SumRuns(line, m + c)

(* 'X*' in line or '*X' in line, line being a list of one-character strings:
   the membership test compares whole elements, and no element is a
   two-character string *)
BlockBonus(line, sym) ==
  IF \E m \in 1..Len(line) : line[m] = sym \o "*" \/ line[m] = "*" \o sym
  THEN 5 ELSE 0

RECURSIVE SumLines(_, _)
SumLines(ls, k) ==
  IF k > Len(ls) THEN 0
  ELSE BlockBonus(ls[k], "X") - BlockBonus(ls[k], "O")
       + SumRuns(ls[k], 1) + SumLines(ls, k + 1)

(* Game.e1, the loop of lines 491-504: the raw score kept in state_eval1 *)
RawE1(b, ss) == SumLines(Lines(b, ss), 1)

(* Game.e1 times 10^s: clamp(score + depth), depth negated for the minimizer *)
e1(b, ss, maximize, depth) ==
  RawE1(b, ss) + (IF maximize THEN depth ELSE -depth)

(* the score 1 of a proven outcome, in the model's unit 10^-s *)
One(ss) == Pow10(ss)

Leaf(score) == [v |-> score, x |-> -1, y |-> -1, nodes |-> 1, seen |-> {<<>>}]

(* the calls entered below a child reached by the move on cell k: each is
   named by the moves that lead to it *)
Below(k, r) == {<<k>> \o p : p \in r.seen}

(* the loops taking the cell they stand on, empty or not *)
NextCell(b, k) == k

(* the for loops of lines 397-399 from cell number k on (cell number
   i * n + j for current_state[i][j]): the number of the next cell that holds
   '.', or n * n when the loops are over *)
NextEmpty(b, k) ==
  LET nn == Len(b)
      E == {m \in k..(nn * nn - 1) : b[(m \div nn) + 1][(m % nn) + 1] = "."}
  IN IF E = {} THEN nn * nn ELSE Least(E)

(* the comparisons taken as v >= value and v <= value: a child as good as
   the best so far replaces it *)
BetterOrEqual(max, v, value) == IF max THEN v >= value ELSE v <= value

(* lines 403 and 409: v > value for the maximizer, v < value for the
   minimizer *)
Better(max, v, value) == IF max THEN v > value ELSE v < value

(* the cutoff tests taken against the wrong bound: a maximizing node returns
   once its value reaches alpha, a minimizing node once it is down to beta *)
CutoffWrongBound(max, value, alpha, beta) ==
  IF max THEN value >= alpha ELSE value <= beta

(* lines 465 and 470: value >= beta for the maximizer, value <= alpha for the
   minimizer *)
Cutoff(max, value, alpha, beta) ==
  IF max THEN value >= beta ELSE value <= alpha

(* Game.minimax without time cutoff: the returned value (v, in units of
   10^-s), the move (x, y; -1 for None), the count of calls entered and the set
   of the calls entered, each named by the moves (cell numbers) made from the
   root to reach it *)
RECURSIVE minimax(_, _, _, _)
RECURSIVE mmLoop(_, _, _, _, _, _)

(* the loop of minimax left after its first child *)
mmLoopFirstChild(b, ss, max, depth, k, acc) ==
  LET k0 == NextEmpty(b, k)
      i == k0 \div Len(b)
      j == k0 % Len(b)
      r == minimax(Put(b, i, j, IF max THEN "O" ELSE "X"), ss, ~max, depth - 1)
  IN IF k0 >= Len(b) * Len(b) THEN acc
     ELSE [v |-> r.v, x |-> i, y |-> j,
           nodes |-> acc.nodes + r.nodes, seen |-> acc.seen \cup Below(k0, r)]

mmLoop(b, ss, max, depth, k, acc) ==
  LET k0 == NextEmpty(b, k)
      i == k0 \div Len(b)
      j == k0 % Len(b)
      r == minimax(Put(b, i, j, IF max THEN "O" ELSE "X"), ss, ~max, depth - 1)
      nodes == acc.nodes + r.nodes
      seen == acc.seen \cup Below(k0, r)
  IN IF k0 >= Len(b) * Len(b) THEN acc
     ELSE IF Better(max, r.v, acc.v)
          THEN mmLoop(b, ss, max, depth, k0 + 1,
                      [v |-> r.v, x |-> i, y |-> j, nodes |-> nodes, seen |-> seen])
          ELSE mmLoop(b, ss, max, depth, k0 + 1,
                      [v |-> acc.v, x |-> acc.x, y |-> acc.y, nodes |-> nodes, seen |-> seen])

minimax(b, ss, max, depth) ==
  LET verdict == ScanEnd(b, ss)
  IN CASE verdict = "X" -> Leaf(-One(ss))
       [] verdict = "O" -> Leaf(One(ss))
       [] verdict = "." -> Leaf(0)
       [] verdict = "none" /\ depth <= 0 -> Leaf(e1(b, ss, max, depth))
       [] OTHER -> mmLoop(b, ss, max, depth, 0,
                          Leaf(IF max THEN -2 * One(ss) ELSE 2 * One(ss)))

(* Game.alphabeta without time cutoff *)
RECURSIVE alphabeta(_, _, _, _, _, _)
RECURSIVE abLoop(_, _, _, _, _, _, _, _)
abLoop(b, ss, alpha, beta, max, depth, k, acc) ==
  LET k0 == NextEmpty(b, k)
      i == k0 \div Len(b)
      j == k0 % Len(b)
      r == alphabeta(Put(b, i, j, IF max THEN "O" ELSE "X"), ss,
                     alpha, beta, ~max, depth - 1)
      better == Better(max, r.v, acc.v)
      a2 == [v |-> IF better THEN r.v ELSE acc.v,
             x |-> IF better THEN i ELSE acc.x,
             y |-> IF better THEN j ELSE acc.y,
             nodes |-> acc.nodes + r.nodes,
             seen |-> acc.seen \cup Below(k0, r)]
  IN IF k0 >= Len(b) * Len(b) THEN acc
     ELSE IF Cutoff(max, a2.v, alpha, beta) THEN a2
     ELSE IF max
          THEN abLoop(b, ss, IF a2.v > alpha THEN a2.v ELSE alpha, beta,
                      max, depth, k0 + 1, a2)
          ELSE abLoop(b, ss, alpha, IF a2.v < beta THEN a2.v ELSE beta,
                      max, depth, k0 + 1, a2)

alphabeta(b, ss, alpha, beta, max, depth) ==
  LET verdict == ScanEnd(b, ss)
  IN CASE verdict = "X" -> Leaf(-One(ss))
       [] verdict = "O" -> Leaf(One(ss))
       [] verdict = "." -> Leaf(0)
       [] verdict = "none" /\ depth <= 0 -> Leaf(e1(b, ss, max, depth))
       [] OTHER -> abLoop(b, ss, alpha, beta, max, depth, 0,
                          Leaf(IF max THEN -2 * One(ss) ELSE 2 * One(ss)))

Count(b, sym) ==
  Cardinality({c \in (1..Len(b)) \X (1..Len(b)) : b[c[1]][c[2]] = sym})

(* the test of the bounds alone: a cell that is not '.' is taken as valid *)
is_valid_in_bounds(b, px, py) ==
  /\ px >= 0 /\ px < Len(b)
  /\ py >= 0 /\ py < Len(b)

(* Game.is_valid *)
is_valid(b, px, py) ==
  IF px < 0 \/ px >= Len(b) \/ py < 0 \/ py >= Len(b) THEN FALSE
  ELSE IF b[px + 1][py + 1] # "." THEN FALSE
  ELSE TRUE

NoRes == [d |-> 0]
NoEval == <<>>

(* Game.turn_stats before Game.play made one: the attribute does not exist *)
NoStats == [absent |-> TRUE]

(* TurnStats(), lines 12-19 (elapsed and avg_recursion_depth, two numbers
   that are only printed, are left out) *)
TurnStats ==
  [end_count |-> 0, end_cache_hit |-> 0, eval_count |-> 0,
   eval_cache_hit |-> 0, eval_by_depth |-> <<>>]

(* Player(symbol), lines 54-59, with the depth Game.play gives it from d1 or
   d2 (lines 562-565) and the heuristic e1 *)
Player(symbol, human, depth, algo) ==
  [symbol |-> symbol, human |-> human, depth |-> depth, algo |-> algo]

NoMove == [m |-> 0, x |-> -1, y |-> -1]

(* initialize_game, lines 190-192, on a Game that has no turn_stats yet *)
NoCaches ==
  /\ state_end = <<>>
  /\ state_lines = <<>>
  /\ state_eval1 = <<>>
  /\ turn_stats = NoStats

(* a Game on which Game.play was not called *)
NoPlay ==
  /\ NoCaches
  /\ stack = <<>>
  /\ pc = "idle"
  /\ active_player = "X"
  /\ player_x = Player("X", FALSE, 5, "alphabeta")
  /\ player_o = Player("O", FALSE, 5, "alphabeta")
  /\ recommend = TRUE
  /\ time_left = -1
  /\ move = NoMove

(***************************************************************************)
(* SpecAB: the two searches as root calls on the positions of a 3x3 game   *)
(* with winning length 3 and no blocs (the defaults of Game.__init__),     *)
(* without time cutoff. X moves first (Game.play, line 567) and the        *)
(* players alternate; a root call is made for the side to move, as         *)
(* Game.play does (max is TRUE for O).                                     *)
(***************************************************************************)
DefaultN == 3
DefaultS == 3

(* the searches are run on the positions with at most MaxEmpty empty cells
   and to a depth of at most MaxDepth plies *)
MaxEmpty == 4
MaxDepth == 4

Turn(b) == IF Count(b, "X") = Count(b, "O") THEN "X" ELSE "O"

InitAB ==
  /\ n = DefaultN
  /\ s = DefaultS
  /\ blocs = <<>>
  /\ board = EmptyBoard(DefaultN)
  /\ err = "ok"
  /\ result = "unset"
  /\ eval_res = NoEval
  /\ mm_res = NoRes
  /\ ab_res = NoRes
  /\ NoPlay

(* Game.play, lines 607-611: a move of the active player on a valid cell, the
   game not being over (check_end, line 578) *)
ABMove ==
  /\ ScanEnd(board, s) = "none"
  /\ \E i \in 0..(n - 1), j \in 0..(n - 1) :
       /\ is_valid(board, i, j)
       /\ board' = Put(board, i, j, Turn(board))
  /\ mm_res' = NoRes
  /\ ab_res' = NoRes
  /\ UNCHANGED <<n, s, blocs, err, result, eval_res>>
  /\ UNCHANGED play_vars

(* a root call of each search on the same position with the same depth, for
   the side to move: Game.play, lines 585-590 *)
ABSearch ==
  /\ mm_res = NoRes /\ ab_res = NoRes
  /\ Count(board, ".") <= MaxEmpty
  /\ \E d \in 1..MaxDepth :
       LET max == Turn(board) = "O"
       IN /\ mm_res' = [d |-> d, max |-> max, r |-> minimax(board, s, max, d)]
          /\ ab_res' = [d |-> d, max |-> max,
                        r |-> alphabeta(board, s, -2 * One(s), 2 * One(s), max, d)]
  /\ UNCHANGED <<n, s, blocs, board, err, result, eval_res>>
  /\ UNCHANGED play_vars

NextAB == ABMove \/ ABSearch

SpecAB == InitAB /\ [][NextAB]_vars

(* C1: on every position reached by legal alternating play on the 3x3 board,
   searched to full depth (the depth is at least the number of empty cells),
   alphabeta started with the window (-2, 2) returns the score minimax
   returns for the same side to move. *)
C1_SameScore ==
  (mm_res # NoRes /\ ab_res # NoRes /\ mm_res.d >= Count(board, "."))
    => ab_res.r.v = mm_res.r.v

(* a position with pieces on it where both searches ran to full depth, the
   side to move wins, and alphabeta cut branches off *)
C1_Witness ==
  /\ mm_res # NoRes /\ ab_res # NoRes
  /\ mm_res.d >= Count(board, ".")
  /\ Count(board, ".") = MaxEmpty
  /\ ab_res.r.v = mm_res.r.v
  /\ mm_res.r.v = One(s)
  /\ ab_res.r.nodes < mm_res.r.nodes

(* C10: on the same position with the same depth, alphabeta enters at most as
   many calls as minimax, and every call alphabeta enters (named by the moves
   from the root) is a call minimax enters. *)
C10_FewerNodes ==
  (mm_res # NoRes /\ ab_res # NoRes)
    => /\ ab_res.d = mm_res.d
       /\ ab_res.r.nodes <= mm_res.r.nodes
       /\ ab_res.r.seen \subseteq mm_res.r.seen

C10_Witness ==
  /\ mm_res # NoRes /\ ab_res # NoRes
  /\ ab_res.r.nodes < mm_res.r.nodes
  /\ ab_res.r.seen # mm_res.r.seen
  /\ mm_res.d < Count(board, ".")

(* C22: on every position reached by legal alternating play on the 3x3 board
   (winning length 3, no blocs), for the same side to move and the same
   maximum depth, without time cutoff, the root call of alphabeta returns the
   move (x, y) the root call of minimax returns, and the same score. *)
C22_SameMove ==
  (mm_res # NoRes /\ ab_res # NoRes)
    => /\ ab_res.r.x = mm_res.r.x
       /\ ab_res.r.y = mm_res.r.y
       /\ ab_res.r.v = mm_res.r.v

(* a position searched short of its end, where alphabeta cut branches off
   and the move both searches return is not the first empty cell *)
C22_Witness ==
  /\ mm_res # NoRes /\ ab_res # NoRes
  /\ mm_res.d < Count(board, ".")
  /\ ab_res.r.nodes < mm_res.r.nodes
  /\ mm_res.r.x # -1
  /\ ab_res.r.x = mm_res.r.x /\ ab_res.r.y = mm_res.r.y
  /\ mm_res.r.x * n + mm_res.r.y # NextEmpty(board, 0)

(***************************************************************************)
(* SpecInit: the constructor. Game(n, s, blocs) is called with sizes and   *)
(* winning lengths from 0 to MaxTry and with lists of 0 to 2n+1 blocs; it  *)
(* stores its arguments, validates them and, when validate raises nothing, *)
(* creates the board.                                                      *)
(***************************************************************************)
MaxTry == 12

(* a list of k blocs: the first k cells of the three leftmost columns, row by
   row *)
SomeBlocs(k) == [m \in 1..k |-> <<(m - 1) \div MinN, (m - 1) % MinN>>]

InitInit ==
  /\ n = 0
  /\ s = 0
  /\ blocs = <<>>
  /\ board = <<>>
  /\ err = "unbuilt"
  /\ result = "unset"
  /\ eval_res = NoEval
  /\ mm_res = NoRes
  /\ ab_res = NoRes
  /\ NoPlay

(* Game.__init__ and initialize_game: lines 122-125 store the arguments,
   line 170 validates, lines 171-188 create the board *)
Construct ==
  /\ err = "unbuilt"
  /\ \E nn \in 0..MaxTry, ss \in 0..MaxTry :
       \E k \in 0..(2 * nn + 1) :
         LET bl == SomeBlocs(k)
             e == validate(nn, ss, bl)
         IN /\ n' = nn
            /\ s' = ss
            /\ blocs' = bl
            /\ err' = e
            /\ board' = IF e = "ok" THEN initialize_game(nn, bl) ELSE <<>>
  /\ UNCHANGED <<result, eval_res, mm_res, ab_res>>
  /\ UNCHANGED play_vars

NextInit == Construct

SpecInit == InitInit /\ [][NextInit]_vars

(* the cells of a line of the coordinate board: all the cells with the same
   second index, all the cells with the same first index, or a whole diagonal
   in direction (+1, dy) *)
IsRowOf(line, nn) ==
  \E c \in 1..nn : line = [y \in 1..nn |-> <<y, c>>]

IsColOf(line, nn) ==
  \E c \in 1..nn : line = [y \in 1..nn |-> <<c, y>>]

IsDiagOf(line, nn, dy) ==
  LET first == line[1]
      last == line[Len(line)]
      edge(c) == IF dy = 1 THEN c = 1 ELSE c = nn
      far(c) == IF dy = 1 THEN c = nn ELSE c = 1
  IN /\ Len(line) >= 1
     /\ \A m \in 2..Len(line) : line[m] = <<line[m - 1][1] + 1, line[m - 1][2] + dy>>
     /\ first[1] = 1 \/ edge(first[2])
     /\ last[1] = nn \/ far(last[2])

Distinct(seq) == Cardinality({seq[k] : k \in DOMAIN seq}) = Len(seq)

(* C4: for every n in 3..10 and s in 3..n, read_all_lines returns n rows and n
   columns of length n and then, for each of the two diagonal directions,
   exactly 2n - 1 - 2(s - 1) different whole diagonals; every line has at
   least s cells, and the lines of the board hold the cells of these places. *)
C4_LineCounts ==
  (err = "ok" /\ n \in MinN..MaxN /\ s \in 3..n)
    => LET g == read_all_lines(CoordBoard(n), s)
           ls == read_all_lines(board, s)
           nd == 2 * n - 1 - 2 * (s - 1)
       IN /\ Len(g) = 2 * n + 2 * nd
          /\ Len(ls) = Len(g)
          /\ \A k \in 1..Len(g) :
               /\ Len(g[k]) >= s
               /\ Len(ls[k]) = Len(g[k])
               /\ \A m \in 1..Len(g[k]) : ls[k][m] = board[g[k][m][1]][g[k][m][2]]
          /\ Distinct(g)
          /\ \A k \in 1..(2 * n) :
               /\ Len(g[k]) = n
               /\ IF k % 2 = 1 THEN IsRowOf(g[k], n) ELSE IsColOf(g[k], n)
          /\ \A k \in (2 * n + 1)..(2 * n + nd) : IsDiagOf(g[k], n, 1)
          /\ \A k \in (2 * n + nd + 1)..(2 * n + 2 * nd) : IsDiagOf(g[k], n, -1)

(* the largest board with the shortest winning line and blocs on it: 15
   diagonals in each direction, the shortest of 3 cells *)
C4_Witness ==
  /\ err = "ok" /\ n = MaxN /\ s = 3 /\ Len(blocs) = 2 * n
  /\ Len(read_all_lines(board, s)) = 50
  /\ \E k \in 1..50 : Len(read_all_lines(board, s)[k]) = 3
  /\ \E k \in 1..50 : read_all_lines(board, s)[k][1] = "*"

(* C8: a Game constructed with a size outside 3..10, a winning length outside
   3..size or more than 2*size blocs ends in an exception and has no board. *)
C8_Rejected ==
  (err # "unbuilt" /\ (n < 3 \/ n > 10 \/ s < 3 \/ s > n \/ Len(blocs) > 2 * n))
    => (err # "ok" /\ board = <<>>)

(***************************************************************************)
(* SpecBoards: games on small boards, move by move. A Game is constructed  *)
(* with one of the configurations of BoardConfigs; Game.play then          *)
(* alternates check_end and a move of the active player (X first) on any   *)
(* valid cell, up to MaxPieces pieces.                                     *)
(***************************************************************************)
MaxPieces == 5

BoardConfigs ==
  { [n |-> 3, s |-> 3, blocs |-> <<>>],
    [n |-> 3, s |-> 3, blocs |-> << <<0, 0>>, <<0, 2>>, <<2, 0>>, <<2, 2>> >>],
    [n |-> 4, s |-> 3, blocs |-> << <<1, 1>>, <<3, 2>> >>],
    [n |-> 4, s |-> 4, blocs |-> <<>>] }

InitBoards ==
  \E c \in BoardConfigs :
    /\ n = c.n
    /\ s = c.s
    /\ blocs = c.blocs
    /\ err = validate(c.n, c.s, c.blocs)
    /\ board = initialize_game(c.n, c.blocs)
    /\ result = "unset"
    /\ eval_res = NoEval
    /\ mm_res = NoRes
    /\ ab_res = NoRes
    /\ NoPlay

(* Game.check_end: result is what is_end says of the board; when the game is
   over (a winner or a tie) initialize_game makes the board anew *)
BCheckEnd ==
  /\ result = "unset"
  /\ result' = ScanEnd(board, s)
  /\ board' = IF ScanEnd(board, s) = "none" THEN board ELSE initialize_game(n, blocs)
  /\ UNCHANGED <<n, s, blocs, err, eval_res, mm_res, ab_res>>
  /\ UNCHANGED play_vars

(* Game.play, lines 598-611, both players human and recommend off: the move
   input_move returns is any valid cell; it gets the symbol of the active
   player and the other player becomes active *)
BMove ==
  /\ result = "none"
  /\ Count(board, "X") + Count(board, "O") < MaxPieces
  /\ \E i \in 0..(n - 1), j \in 0..(n - 1) :
       /\ is_valid(board, i, j)
       /\ board' = Put(board, i, j, Turn(board))
  /\ result' = "unset"
  /\ UNCHANGED <<n, s, blocs, err, eval_res, mm_res, ab_res>>
  /\ UNCHANGED play_vars

NextBoards == BCheckEnd \/ BMove

SpecBoards == InitBoards /\ [][NextBoards]_vars

(* ss cells in a row, a column or a diagonal, next to one another, all
   holding sym *)
RunOn(b, sym, ss) ==
  \E i \in 1..Len(b), j \in 1..Len(b) :
    \E dir \in {<<0, 1>>, <<1, 0>>, <<1, 1>>, <<1, -1>>} :
      \A m \in 0..(ss - 1) :
        LET ci == i + m * dir[1]
            cj == j + m * dir[2]
        IN /\ ci \in 1..Len(b) /\ cj \in 1..Len(b)
           /\ b[ci][cj] = sym

HasEmpty(b) == \E i \in 1..Len(b), j \in 1..Len(b) : b[i][j] = "."

(* C3: on every board, is_end gives X (O) only when s cells next to one
   another in a row, a column or a diagonal all hold X (O); it gives a winner
   whenever there is such a run; it gives the tie exactly when there is no run
   and no empty cell, and None exactly when there is no run and an empty cell
   is left. *)
C3_Verdict ==
  LET r == ScanEnd(board, s)
      runX == RunOn(board, "X", s)
      runO == RunOn(board, "O", s)
  IN /\ r \in {"X", "O", ".", "none"}
     /\ r = "X" => runX
     /\ r = "O" => runO
     /\ (runX \/ runO) => r \in {"X", "O"}
     /\ r = "." <=> (~runX /\ ~runO /\ ~HasEmpty(board))
     /\ r = "none" <=> (~runX /\ ~runO /\ HasEmpty(board))

(* a board with blocs, before check_end looks at it, on which X has its
   three in a second diagonal that is not the longest one *)
C3_Witness ==
  /\ result = "unset" /\ n = 4 /\ s = 3 /\ Len(blocs) > 0
  /\ ScanEnd(board, s) = "X"
  /\ board[2][4] = "X" /\ board[3][3] = "X" /\ board[4][2] = "X"

(***************************************************************************)
(* SpecE1: a game on the 5x5 board with winning length 3 and no blocs, in  *)
(* which X plays on the cells of XCells and O on the cells of OCells, in   *)
(* any order; on every position a root call of a search with depth 0 may   *)
(* be made, which returns e1 of the board (lines 392-393).                 *)
(***************************************************************************)
E1Target ==
  << <<".", "X", ".", "X", ".">>,
     <<"X", ".", "O", "O", "X">>,
     <<"O", "O", ".", "O", "O">>,
     <<"X", "O", "O", ".", "X">>,
     <<".", "X", ".", "X", ".">> >>

XCells == {c \in (0..4) \X (0..4) : E1Target[c[1] + 1][c[2] + 1] = "X"}
OCells == {c \in (0..4) \X (0..4) : E1Target[c[1] + 1][c[2] + 1] = "O"}

InitE1 ==
  /\ n = Len(E1Target)
  /\ s = DefaultS
  /\ blocs = <<>>
  /\ err = validate(Len(E1Target), DefaultS, <<>>)
  /\ board = initialize_game(Len(E1Target), <<>>)
  /\ result = "unset"
  /\ eval_res = NoEval
  /\ mm_res = NoRes
  /\ ab_res = NoRes
  /\ NoPlay

(* Game.play, lines 598-611: a move of the active player *)
E1Move ==
  /\ result = "none"
  /\ \E c \in IF Turn(board) = "X" THEN XCells ELSE OCells :
       /\ is_valid(board, c[1], c[2])
       /\ board' = Put(board, c[1], c[2], Turn(board))
  /\ result' = "unset"
  /\ eval_res' = NoEval
  /\ UNCHANGED <<n, s, blocs, err, mm_res, ab_res>>
  /\ UNCHANGED play_vars

(* a root call minimax(max, 0) or alphabeta(-2, 2, max, 0) on a board where
   the game goes on: the depth is used up, the call returns eval(max, 0),
   which is e1(max, 0) *)
E1Eval ==
  /\ result = "none"
  /\ eval_res = NoEval
  /\ \E max \in BOOLEAN :
       eval_res' = [max |-> max, depth |-> 0, v |-> e1(board, s, max, 0)]
  /\ UNCHANGED <<n, s, blocs, board, err, result, mm_res, ab_res>>
  /\ UNCHANGED play_vars

NextE1 == BCheckEnd \/ E1Move \/ E1Eval

SpecE1 == InitE1 /\ [][NextE1]_vars

(* C6: e1 at a depth cutoff (remaining depth 0) on a board where the game goes
   on is strictly between -1 and 1: the sum of the raw scores is smaller
   than 10^s in absolute value. *)
C6_BelowOne ==
  (eval_res # NoEval /\ eval_res.depth = 0)
    => (eval_res.v < One(s) /\ eval_res.v > -One(s))

(***************************************************************************)
(* The searches step by step. A call of minimax or alphabeta in progress   *)
(* is a frame: its arguments (max, depth, alpha, beta), its locals (value, *)
(* x, y), the number k of the cell its loops stand on, and its phase:      *)
(* "loop" while it has a child to try, "ret" once it reached a return.     *)
(* entry is the board the call was entered on, kept to state what the call *)
(* leaves of it. minimax has no alpha and beta: its frames keep -2 and 2.  *)
(***************************************************************************)

(* depth=None, the depth check_end gives is_end *)
NoDepth == -1

(* lines 302-305 and 319-322 (always FALSE: a depth of 0 or None is counted
   only when it is a key already), lines 541-544 (always TRUE) *)
CountDepth(by, depth, always) ==
  IF depth \in DOMAIN by THEN [by EXCEPT ![depth] = @ + 1]
  ELSE IF always \/ depth > 0 THEN (depth :> 1) @@ by
  ELSE by

(* lines 300-305 (hit TRUE) and 318-322 (hit FALSE) *)
CountEnd(ts, depth, hit) ==
  IF ts = NoStats THEN NoStats
  ELSE [ts EXCEPT !.end_count = @ + 1,
                  !.end_cache_hit = IF hit THEN @ + 1 ELSE @,
                  !.eval_by_depth = CountDepth(@, depth, FALSE)]

(* Game.is_end(depth) on the board b with the caches se (state_end) and sl
   (state_lines) and the statistics ts: what it returns, the caches and the
   statistics it leaves; raised when it ends on the AttributeError of a
   turn_stats that does not exist. The key str(current_state) is the board:
   two boards have the same string exactly when they are equal. *)
is_end(b, ss, se, sl, ts, depth) ==
  IF b \in DOMAIN se
  THEN [result |-> se[b], state_end |-> se, state_lines |-> sl,
        turn_stats |-> IF se[b] # "none" THEN CountEnd(ts, depth, TRUE) ELSE ts,
        raised |-> se[b] # "none" /\ ts = NoStats]
  ELSE LET ls == Lines(b, ss)
           w == FirstWin(ls, ss)
           sl2 == (b :> ls) @@ sl
           r == IF is_full(sl2[b]) THEN "." ELSE "none"
       IN IF w # "none"
          THEN [result |-> w,
                state_end |-> IF ts = NoStats THEN se ELSE (b :> w) @@ se,
                state_lines |-> sl,
                turn_stats |-> CountEnd(ts, depth, FALSE),
                raised |-> ts = NoStats]
          ELSE [result |-> r, state_end |-> (b :> r) @@ se,
                state_lines |-> sl2, turn_stats |-> ts, raised |-> FALSE]

(* the score kept in state_eval1 with the depth added to it *)
CachedScoreWithDepth(score, signed) == score + signed

(* line 505: the raw score is what state_eval1 keeps *)
CachedScore(score, signed) == score

(* Game.eval(maximize, depth) with the heuristic e1 (lines 538-546 and
   476-506) on the board b: the value times 10^s, the caches and the
   statistics it leaves *)
eval(b, ss, sl, sv, ts, maximize, depth, max_depth) ==
  LET signed == IF maximize THEN depth ELSE -depth
      ts1 == [ts EXCEPT !.eval_count = @ + 1,
                        !.eval_by_depth = CountDepth(@, max_depth - depth, TRUE)]
      ls == IF b \in DOMAIN sl THEN sl[b] ELSE Lines(b, ss)
      score == SumLines(ls, 1)
  IN IF b \in DOMAIN sv
     THEN [v |-> sv[b] + signed, state_lines |-> sl, state_eval1 |-> sv,
           turn_stats |-> [ts1 EXCEPT !.eval_cache_hit = @ + 1]]
     ELSE [v |-> score + signed, state_lines |-> (b :> ls) @@ sl,
           state_eval1 |-> (b :> CachedScore(score, signed)) @@ sv,
           turn_stats |-> ts1]

(* lines 379-393 and 426-440: the frame of a call entered on the board b,
   verdict being what is_end returned, late whether the time is up and score
   what eval returns *)
Enter(b, ss, max, depth, alpha, beta, verdict, late, score) ==
  LET f == [max |-> max, depth |-> depth, alpha |-> alpha, beta |-> beta,
            value |-> IF max THEN -2 * One(ss) ELSE 2 * One(ss),
            x |-> -1, y |-> -1, k |-> NextEmpty(b, 0), phase |-> "ret",
            entry |-> b]
  IN CASE verdict = "X" -> [f EXCEPT !.value = -One(ss)]
       [] verdict = "O" -> [f EXCEPT !.value = One(ss)]
       [] verdict = "." -> [f EXCEPT !.value = 0]
       [] verdict = "none" /\ (late \/ depth <= 0) -> [f EXCEPT !.value = score]
       [] OTHER -> [f EXCEPT !.phase = "loop"]

(* lines 401 and 408, 448 and 455: the symbol a call places *)
Symbol(max) == IF max THEN "O" ELSE "X"

(* the cell left as the child found it *)
UndoSkipped(b, i, j) == b

(* lines 414 and 461 *)
Undo(b, i, j) == Put(b, i, j, ".")

(* lines 403-415 and 450-472: the frame f after its child on the cell f.k
   returned v, b being the board after the undo; ab is whether the search is
   alphabeta *)
Resume(f, v, b, ab) ==
  LET better == Better(f.max, v, f.value)
      value == IF better THEN v ELSE f.value
      k2 == NextEmpty(b, f.k + 1)
      g == [f EXCEPT !.value = value,
                     !.x = IF better THEN f.k \div Len(b) ELSE @,
                     !.y = IF better THEN f.k % Len(b) ELSE @]
  IN IF ab /\ Cutoff(f.max, value, f.alpha, f.beta)
     THEN [g EXCEPT !.phase = "ret"]
     ELSE [g EXCEPT !.alpha = IF ab /\ f.max /\ value > @ THEN value ELSE @,
                    !.beta = IF ab /\ ~f.max /\ value < @ THEN value ELSE @,
                    !.k = k2,
                    !.phase = IF k2 >= Len(b) * Len(b) THEN "ret" ELSE "loop"]

Top == stack[Len(stack)]

(***************************************************************************)
(* SpecOpen: a root call of alphabeta on the empty 3x3 board, winning      *)
(* length 3, to the full depth of the nine cells and without time cutoff,  *)
(* for either side. The calls read the verdict and the score of a board    *)
(* from the board itself (ScanEnd, e1): the caches are left out.           *)
(***************************************************************************)
FullDepth == DefaultN * DefaultN

InitOpen ==
  /\ n = DefaultN
  /\ s = DefaultS
  /\ blocs = <<>>
  /\ board = EmptyBoard(DefaultN)
  /\ err = "ok"
  /\ result = "unset"
  /\ eval_res = NoEval
  /\ mm_res = NoRes
  /\ ab_res = NoRes
  /\ NoCaches
  /\ pc = "search"
  /\ \E max \in BOOLEAN :
       /\ active_player = Symbol(max)
       /\ stack = <<Enter(board, s, max, FullDepth, -2 * One(s), 2 * One(s),
                          ScanEnd(board, s), FALSE, e1(board, s, max, FullDepth))>>
  /\ player_x = Player("X", FALSE, FullDepth, "alphabeta")
  /\ player_o = Player("O", FALSE, FullDepth, "alphabeta")
  /\ recommend = TRUE
  /\ time_left = -1
  /\ move = NoMove

(* lines 446-456: the call on top places its symbol on the cell its loops
   stand on and calls alphabeta for the other side *)
OpenDescend ==
  /\ stack # <<>>
  /\ Top.phase = "loop"
  /\ LET f == Top
         b2 == Put(board, f.k \div n, f.k % n, Symbol(f.max))
     IN /\ board' = b2
        /\ stack' = Append(stack,
             Enter(b2, s, ~f.max, f.depth - 1, f.alpha, f.beta,
                   ScanEnd(b2, s), FALSE, e1(b2, s, ~f.max, f.depth - 1)))
  /\ UNCHANGED <<n, s, blocs, err, result, eval_res, mm_res, ab_res>>
  /\ UNCHANGED <<state_end, state_lines, state_eval1, turn_stats, pc,
                 active_player, player_x, player_o, recommend, time_left, move>>

(* lines 450-473: the call on top returned to its caller *)
OpenReturn ==
  /\ Len(stack) >= 2
  /\ Top.phase = "ret"
  /\ LET m == Len(stack) - 1
         f == stack[m]
         b2 == Undo(board, f.k \div n, f.k % n)
     IN /\ board' = b2
        /\ stack' = [SubSeq(stack, 1, m) EXCEPT ![m] = Resume(f, Top.value, b2, TRUE)]
  /\ UNCHANGED <<n, s, blocs, err, result, eval_res, mm_res, ab_res>>
  /\ UNCHANGED <<state_end, state_lines, state_eval1, turn_stats, pc,
                 active_player, player_x, player_o, recommend, time_left, move>>

(* the root call returned *)
OpenEnd ==
  /\ Len(stack) = 1
  /\ Top.phase = "ret"
  /\ ab_res' = [d |-> FullDepth, max |-> Top.max,
                r |-> [v |-> Top.value, x |-> Top.x, y |-> Top.y]]
  /\ stack' = <<>>
  /\ pc' = "idle"
  /\ UNCHANGED <<n, s, blocs, board, err, result, eval_res, mm_res>>
  /\ UNCHANGED <<state_end, state_lines, state_eval1, turn_stats,
                 active_player, player_x, player_o, recommend, time_left, move>>

NextOpen == OpenDescend \/ OpenReturn \/ OpenEnd

SpecOpen == InitOpen /\ [][NextOpen]_vars

(* C9: on the empty 3x3 board with winning length 3 and no blocs, alphabeta
   called with max = TRUE (O to move), the full depth and no time cutoff
   returns the score 0. *)
C9_OpeningTie ==
  (ab_res # NoRes /\ ab_res.max /\ ab_res.d = FullDepth
     /\ board = EmptyBoard(DefaultN) /\ blocs = <<>> /\ s = DefaultS)
    => ab_res.r.v = 0

C9_Witness ==
  /\ ab_res # NoRes
  /\ ab_res.max
  /\ ab_res.d = FullDepth
  /\ board = EmptyBoard(DefaultN)
  /\ ab_res.r.x # -1

(***************************************************************************)
(* Spec: Game.play on a 3x3 board with winning length 3 and the four       *)
(* corners blocked, for every combination of human and AI players, with    *)
(* and without recommendations (two humans play without: the searches of   *)
(* a recommendation are run in the games of one human), with minimax or    *)
(* alphabeta for both players (Game.a), each search run call by call with  *)
(* the caches and the statistics. The clock is what the time checks of a   *)
(* search see: the check of line 392 or 439 finds the time up from some    *)
(* check of the search on, or never.                                       *)
(***************************************************************************)
PlayBlocs == <<<<0, 0>>, <<0, 2>>, <<2, 0>>, <<2, 2>>>>

(* the depths d1 and d2 of the players are at most MaxPlayDepth, and the
   time of a search is up at one of its first MaxClock + 1 checks or never *)
MaxPlayDepth == 2
MaxClock == 1

Init ==
  /\ n = DefaultN
  /\ s = DefaultS
  /\ blocs = PlayBlocs
  /\ board = initialize_game(DefaultN, PlayBlocs)
  /\ err = "ok"
  /\ result = "unset"
  /\ eval_res = NoEval
  /\ mm_res = NoRes
  /\ ab_res = NoRes
  /\ NoCaches
  /\ stack = <<>>
  /\ pc = "check"
  /\ active_player = "X"
  /\ \E hx \in BOOLEAN, ho \in BOOLEAN, a \in {"minimax", "alphabeta"},
        d1 \in 1..MaxPlayDepth, d2 \in 1..MaxPlayDepth :
       /\ player_x = Player("X", hx, d1, a)
       /\ player_o = Player("O", ho, d2, a)
  /\ recommend \in BOOLEAN
  /\ ~(player_x.human /\ player_o.human /\ recommend)
  /\ time_left = -1
  /\ move = NoMove

ActivePlayer == IF active_player = "X" THEN player_x ELSE player_o

(* switch_player *)
switch_player(sym) == IF sym = "X" THEN "O" ELSE "X"

(* the time check of lines 392 and 439 never finding the time up *)
TimeUpNever(tl) == FALSE

(* lines 392 and 439: time.time() - search_start > t - leeway, as the clock
   tl of the search tells it *)
TimeUp(tl) == tl = 0

(* lines 386-393 and 433-440: the frame of a call on the board b, and the
   caches, the statistics and the clock it leaves, e being what is_end did
   and ev what eval does. The time is read only when is_end returned None,
   and eval is called only when the time is up or the depth is spent. *)
Called(e, ev, leaf, b, ss, max, depth, alpha, beta, tl, sv) ==
  [frame |-> Enter(b, ss, max, depth, alpha, beta, e.result, TimeUp(tl),
                   IF leaf THEN ev.v ELSE 0),
   state_end |-> e.state_end,
   state_lines |-> IF leaf THEN ev.state_lines ELSE e.state_lines,
   state_eval1 |-> IF leaf THEN ev.state_eval1 ELSE sv,
   turn_stats |-> IF leaf THEN ev.turn_stats ELSE e.turn_stats,
   time_left |-> IF e.result = "none" /\ tl > 0 THEN tl - 1 ELSE tl]

CallAfter(e, b, ss, max, depth, alpha, beta, tl, max_depth, sv) ==
  Called(e, eval(b, ss, e.state_lines, sv, e.turn_stats, max, depth, max_depth),
         e.result = "none" /\ (TimeUp(tl) \/ depth <= 0),
         b, ss, max, depth, alpha, beta, tl, sv)

(* lines 379-393 and 426-440 run on the board b with the caches se, sl and
   sv, the statistics ts and the clock tl *)
Call(b, ss, max, depth, alpha, beta, tl, max_depth, se, sl, sv, ts) ==
  CallAfter(is_end(b, ss, se, sl, ts, max_depth - depth),
            b, ss, max, depth, alpha, beta, tl, max_depth, sv)

(* the call c was entered from the calls below *)
Entered(c, below) ==
  /\ stack' = Append(below, c.frame)
  /\ state_end' = c.state_end
  /\ state_lines' = c.state_lines
  /\ state_eval1' = c.state_eval1
  /\ turn_stats' = c.turn_stats
  /\ time_left' = c.time_left

(* check_end returning a finished game without the call of initialize_game *)
CheckedWithoutReset(e) ==
  IF e.raised
  THEN /\ pc' = "AttributeError"
       /\ UNCHANGED <<board, result, state_end, state_lines, state_eval1,
                      turn_stats, move>>
  ELSE IF e.result # "none"
  THEN /\ pc' = "done"
       /\ result' = e.result
       /\ state_end' = e.state_end
       /\ state_lines' = e.state_lines
       /\ turn_stats' = e.turn_stats
       /\ UNCHANGED <<board, state_eval1, move>>
  ELSE /\ pc' = IF recommend \/ ~ActivePlayer.human THEN "turn" ELSE "input"
       /\ result' = e.result
       /\ state_end' = e.state_end
       /\ state_lines' = e.state_lines
       /\ move' = NoMove
       /\ UNCHANGED <<board, state_eval1, turn_stats>>

(* lines 335-343 and 581, e being what is_end did *)
Checked(e) ==
  IF e.raised
  THEN /\ pc' = "AttributeError"
       /\ UNCHANGED <<board, result, state_end, state_lines, state_eval1,
                      turn_stats, move>>
  ELSE IF e.result # "none"
  THEN /\ pc' = "done"
       /\ result' = e.result
       /\ board' = initialize_game(n, blocs)
       /\ state_end' = <<>>
       /\ state_lines' = <<>>
       /\ state_eval1' = <<>>
       /\ turn_stats' = e.turn_stats
       /\ UNCHANGED move
  ELSE /\ pc' = IF recommend \/ ~ActivePlayer.human THEN "turn" ELSE "input"
       /\ result' = e.result
       /\ state_end' = e.state_end
       /\ state_lines' = e.state_lines
       /\ move' = NoMove
       /\ UNCHANGED <<board, state_eval1, turn_stats>>

(* Game.check_end at the top of the loop of Game.play (lines 576-581): the
   game is over and play returns on a board made anew, or the turn begins;
   is_end ends play when it finds the game over and no turn_stats *)
CheckEnd ==
  /\ pc = "check"
  /\ Checked(is_end(board, s, state_end, state_lines, turn_stats, NoDepth))
  /\ UNCHANGED <<n, s, blocs, err, eval_res, mm_res, ab_res>>
  /\ UNCHANGED <<stack, active_player, player_x, player_o, recommend, time_left>>

(* lines 582-590: the root call of the search of the active player *)
BeginSearch ==
  /\ pc = "turn"
  /\ \E tl \in -1..MaxClock :
       Entered(Call(board, s, active_player = "O", ActivePlayer.depth,
                    -2 * One(s), 2 * One(s), tl, ActivePlayer.depth,
                    state_end, state_lines, state_eval1, TurnStats), <<>>)
  /\ pc' = "search"
  /\ UNCHANGED <<n, s, blocs, board, err, result, eval_res, mm_res, ab_res>>
  /\ UNCHANGED <<active_player, player_x, player_o, recommend, move>>

(* the depth handed to the children not taken one ply off *)
next_depth_same(depth, active_depth) == depth

(* lines 396 and 443: depth - 1 if depth else self.active_player.depth *)
next_depth(depth, active_depth) ==
  IF depth # 0 THEN depth - 1 ELSE active_depth

(* the board after the call f placed its symbol on the cell its loops stand
   on: lines 401 and 408, 448 and 455 *)
Placed(f, b) == Put(b, f.k \div Len(b), f.k % Len(b), Symbol(f.max))

(* lines 399-409 and 446-456: the call on top places its symbol on the cell
   its loops stand on and calls the search for the other side *)
Descend ==
  /\ pc = "search"
  /\ Top.phase = "loop"
  /\ board' = Placed(Top, board)
  /\ Entered(Call(Placed(Top, board), s, ~Top.max,
                  next_depth(Top.depth, ActivePlayer.depth), Top.alpha,
                  Top.beta, time_left, stack[1].depth,
                  state_end, state_lines, state_eval1, turn_stats), stack)
  /\ UNCHANGED <<n, s, blocs, err, result, eval_res, mm_res, ab_res>>
  /\ UNCHANGED <<pc, active_player, player_x, player_o, recommend, move>>

(* lines 403-416 and 450-473: the call on top returned to its caller, which
   compares, undoes the placement and goes on or returns *)
Return ==
  /\ pc = "search"
  /\ Len(stack) >= 2
  /\ Top.phase = "ret"
  /\ LET m == Len(stack) - 1
         f == stack[m]
         b2 == Undo(board, f.k \div n, f.k % n)
     IN /\ board' = b2
        /\ stack' = [SubSeq(stack, 1, m) EXCEPT
                       ![m] = Resume(f, Top.value, b2, ActivePlayer.algo = "alphabeta")]
  /\ UNCHANGED <<n, s, blocs, err, result, eval_res, mm_res, ab_res>>
  /\ UNCHANGED <<state_end, state_lines, state_eval1, turn_stats, pc,
                 active_player, player_x, player_o, recommend, time_left, move>>

(* the move of the search played and the turn passed before the loop ends *)
ForfeitAfterMove ==
  /\ pc' = "lost"
  /\ board' = IF Top.x = -1 THEN board ELSE Put(board, Top.x, Top.y, ActivePlayer.symbol)
  /\ active_player' = switch_player(active_player)

(* lines 593-595: the break out of the loop of Game.play, which leaves the
   board and the active player as they are *)
Forfeit ==
  /\ pc' = "lost"
  /\ UNCHANGED <<board, active_player>>

(* lines 588-606: the root call returned (m, x, y). An AI that took the
   time t or more loses (the elapsed time is read after the search, whatever
   its checks saw); a move with x None ends play on the TypeError of
   LETTERS[None]; otherwise the move of an AI is played and a human is asked
   for a move. *)
EndSearch ==
  /\ pc = "search"
  /\ Len(stack) = 1
  /\ Top.phase = "ret"
  /\ stack' = <<>>
  /\ time_left' = -1
  /\ move' = [m |-> Top.value, x |-> Top.x, y |-> Top.y]
  /\ \/ ~ActivePlayer.human /\ Forfeit
     \/ /\ Top.x = -1
        /\ pc' = "TypeError"
        /\ UNCHANGED <<board, active_player>>
     \/ /\ Top.x # -1
        /\ pc' = IF ActivePlayer.human THEN "input" ELSE "place"
        /\ UNCHANGED <<board, active_player>>
  /\ UNCHANGED <<n, s, blocs, err, result, eval_res, mm_res, ab_res>>
  /\ UNCHANGED <<state_end, state_lines, state_eval1, turn_stats,
                 player_x, player_o, recommend>>

(* lines 610-611 for an AI: the move of the search is played with the
   symbol of the Player object that is active *)
PlaceMove ==
  /\ pc = "place"
  /\ board' = Put(board, move.x, move.y, ActivePlayer.symbol)
  /\ active_player' = switch_player(active_player)
  /\ pc' = "check"
  /\ UNCHANGED <<n, s, blocs, err, result, eval_res, mm_res, ab_res>>
  /\ UNCHANGED <<stack, state_end, state_lines, state_eval1, turn_stats,
                 player_x, player_o, recommend, time_left, move>>

(* lines 607-611 for a human: input_move returns a valid move, which is
   played *)
InputMove ==
  /\ pc = "input"
  /\ \E px \in 0..(n - 1), py \in 0..(n - 1) :
       /\ is_valid(board, px, py)
       /\ board' = Put(board, px, py, ActivePlayer.symbol)
  /\ active_player' = switch_player(active_player)
  /\ pc' = "check"
  /\ UNCHANGED <<n, s, blocs, err, result, eval_res, mm_res, ab_res>>
  /\ UNCHANGED <<stack, state_end, state_lines, state_eval1, turn_stats,
                 player_x, player_o, recommend, time_left, move>>

Next ==
  \/ CheckEnd
  \/ BeginSearch
  \/ Descend
  \/ Return
  \/ EndSearch
  \/ PlaceMove
  \/ InputMove

Spec == Init /\ [][Next]_vars

(* the cell current_state[k div n][k mod n] of the board b *)
Cell(b, k) == b[(k \div Len(b)) + 1][(k % Len(b)) + 1]

(* C2: when a call of minimax or alphabeta returns, current_state is the
   board the call was entered on; while it runs, each placement changes
   exactly one Empty cell of that board and is undone before the next sibling
   is tried. Stated on the calls in progress: the board is the entry board of
   the call on top, whether it was just entered, stands between two children
   or reached a return (by verdict, depth or time cutoff, alpha/beta cutoff or
   the end of its loops), and the entry board of each other call with its
   Empty cell f.k taken by its symbol is the entry board of the call above. *)
C2_BoardRestored ==
  \A m \in 1..Len(stack) :
    IF m = Len(stack) THEN board = stack[m].entry
    ELSE /\ Cell(stack[m].entry, stack[m].k) = "."
         /\ stack[m + 1].entry = Placed(stack[m], stack[m].entry)

(* a call of alphabeta below the root returns on a cutoff after its second
   child or a later one, cells of its loops being left untried *)
C2_Witness ==
  /\ pc = "search"
  /\ Len(stack) >= 2
  /\ Top.phase = "ret"
  /\ Top.x # -1
  /\ ActivePlayer.algo = "alphabeta"
  /\ NextEmpty(board, Top.k + 1) < n * n
  /\ NextEmpty(board, 0) < Top.k
  /\ Count(board, "X") + Count(board, "O") >= 2

(* C5: between two resets of the board, each entry of state_end is the
   verdict a scan of the keyed board gives, each entry of state_lines is the
   list of the lines read from that board and each entry of state_eval1 is
   the raw score e1 computes on that board. *)
C5_CachesTrue ==
  /\ \A b \in DOMAIN state_end : state_end[b] = ScanEnd(b, s)
  /\ \A b \in DOMAIN state_lines : state_lines[b] = read_all_lines(b, s)
  /\ \A b \in DOMAIN state_eval1 : state_eval1[b] = RawE1(b, s)

(* after three played moves and the searches made for them, the three caches
   hold several boards, a board with a winner among them *)
C5_Witness ==
  /\ stack = <<>>
  /\ pc # "done"
  /\ Count(board, "X") + Count(board, "O") >= 3
  /\ \E b \in DOMAIN state_end : state_end[b] \in {"X", "O"}
  /\ \E b \in DOMAIN state_end : state_end[b] = "none"
  /\ Cardinality(DOMAIN state_lines) >= 4
  /\ Cardinality(DOMAIN state_eval1) >= 4

(* C7: a move (x, y) that minimax or alphabeta returns with x not None is a
   cell inside the board that is Empty on the board the search was called
   on, and the move Game.play places for an AI is on an Empty cell. *)
C7_ValidMove ==
  /\ (stack # <<>> /\ Top.phase = "ret" /\ Top.x # -1)
       => (is_valid(Top.entry, Top.x, Top.y) /\ is_valid(board, Top.x, Top.y))
  /\ pc = "place"
       => (~ActivePlayer.human /\ is_valid(board, move.x, move.y))

(* an AI is about to place the move of its search on a board that has
   blocked cells and cells of both players *)
C7_Witness ==
  /\ pc = "place"
  /\ move.x # -1
  /\ Count(board, "*") >= 1
  /\ Count(board, "X") >= 1
  /\ Count(board, "O") >= 1

(* the numbers of the cells of b that hold '.', cell number i * n + j being
   current_state[i][j] *)
FreeCells(b) == {m \in 0..(Len(b) * Len(b) - 1) : Cell(b, m) = "."}

(* the call f, entered on the board b, returned on the time check of line 392
   or 439: the game goes on (is_end returned None), depth is left and no
   child was tried *)
TimeCut(f, b) ==
  /\ time_left = 0
  /\ f.phase = "ret"
  /\ f.x = -1
  /\ f.depth >= 1
  /\ f.k = NextEmpty(b, 0)
  /\ ScanEnd(b, s) = "none"

(* C12: once a call of a search hit the time cutoff, the search places and
   evaluates no further sibling of it or of its ancestors. Stated on the
   return of such a call to its caller: the caller is then at its own return
   and does not go on with its loops, in which the next step would place its
   symbol on the next Empty cell and enter the sibling. *)
C12_FailFast ==
  [][(pc = "search" /\ Len(stack) >= 2 /\ TimeCut(Top, board))
       => stack'[Len(stack')].phase = "ret"]_vars

(* the Empty cells of b on which the symbol sym leaves the game going on *)
OpenChildren(b, sym) ==
  {k \in FreeCells(b) : ScanEnd(Put(b, k \div Len(b), k % Len(b), sym), s) = "none"}

(* C13: with a time budget of 0 seconds the time is up at every time check
   of a search, the first one included. Such a search of a position where the
   game goes on enters no call below the children of the root, evaluates
   exactly the children of the root (each Empty cell whose child is not a
   finished game) and returns a move. Stated at the return of the root call
   of a search that was out of time at every check below the root and counted
   nothing deeper than the children of the root: the root was not evaluated
   itself (no evaluation at depth 0), as many evaluations were made as the
   root has children where the game goes on, and x is not None. *)
C13_ZeroBudget ==
  (/\ pc = "search"
   /\ time_left = 0
   /\ Len(stack) = 1
   /\ Top.phase = "ret"
   /\ Top.depth >= 1
   /\ \A d \in DOMAIN turn_stats.eval_by_depth : d <= 1)
    => /\ 0 \notin DOMAIN turn_stats.eval_by_depth
       /\ turn_stats.eval_count
            = Cardinality(OpenChildren(board, Symbol(Top.max)))
       /\ Top.x # -1

(* the Empty cells of b on which sym ends the game as its winner *)
WinningCells(b, sym) ==
  {k \in FreeCells(b) : ScanEnd(Put(b, k \div Len(b), k % Len(b), sym), s) = sym}

(* the Empty cells of b that do not win at once and after which the search
   of the other side, with the depth left, still returns the win of sym *)
ForcedWinCells(b, sym, depth) ==
  {k \in FreeCells(b) \ WinningCells(b, sym) :
     minimax(Put(b, k \div Len(b), k % Len(b), sym), s, sym = "X", depth - 1).v
       = (IF sym = "O" THEN One(s) ELSE -One(s))}

(* C14 (SpecAB): when the side to move has a cell that wins at once and
   another cell that forces its win only after more plies, within the depth
   of the search, minimax and alphabeta return a cell that wins at once. *)
C14_FastestWin ==
  (/\ mm_res # NoRes /\ ab_res # NoRes
   /\ WinningCells(board, Turn(board)) # {}
   /\ ForcedWinCells(board, Turn(board), mm_res.d) # {})
    => /\ mm_res.r.x * n + mm_res.r.y \in WinningCells(board, Turn(board))
       /\ ab_res.r.x * n + ab_res.r.y \in WinningCells(board, Turn(board))

(* C16: when the search of an AI player took the time t or more, Game.play
   ends at once with that player the loser: the step to "lost" is taken from
   the return of the root call of an AI, it leaves the board as the search
   was called on it (the returned move is not placed) and the active player
   as it was (the turn is not passed), and no step follows it. *)
C16_Forfeit ==
  [][/\ pc # "lost"
     /\ pc' = "lost"
          => /\ pc = "search"
             /\ ~ActivePlayer.human
             /\ board' = board
             /\ board' = stack[1].entry
             /\ active_player' = active_player
             /\ stack' = <<>>]_vars

(* an AI lost on time in the middle of a game, its search having returned a
   move, which is still an Empty cell of the board, and it is still the
   loser's turn *)
C16_Witness ==
  /\ pc = "lost"
  /\ move.x # -1
  /\ is_valid(board, move.x, move.y)
  /\ Turn(board) = active_player
  /\ Count(board, "X") + Count(board, "O") >= 2

(* C17: once the time of a search is up, every call entered returns without
   trying a child: with the score -1, 1 or 0 of the finished game when the
   board is one, and with the heuristic score of the board otherwise. Each
   such call is the child of a call already in progress, which so enters at
   most one call for each cell its loops have left. *)
C17_NoExpansion ==
  [][(pc = "search" /\ time_left = 0 /\ Len(stack') > Len(stack))
       => /\ Len(stack') = Len(stack) + 1
          /\ stack'[Len(stack')].phase = "ret"
          /\ stack'[Len(stack')].x = -1
          /\ stack'[Len(stack')].value
               = (CASE ScanEnd(board', s) = "X" -> -One(s)
                    [] ScanEnd(board', s) = "O" -> One(s)
                    [] ScanEnd(board', s) = "." -> 0
                    [] OTHER -> e1(board', s, stack'[Len(stack')].max,
                                   stack'[Len(stack')].depth))]_vars

(* the time being up, a call below the root with depth left returned the
   heuristic score of a board on which the game goes on, and its caller has
   cells left to try *)
C17_Witness ==
  /\ pc = "search"
  /\ Len(stack) >= 2
  /\ TimeCut(Top, board)
  /\ Top.value = e1(board, s, Top.max, Top.depth)
  /\ NextEmpty(stack[Len(stack) - 1].entry, stack[Len(stack) - 1].k + 1) < n * n

(* C18: in a search Game.play starts for the active player with depth d >= 1
   and whose time never runs out, the root call has the depth d of the active
   player and each call one less than its caller, so no call is more than d
   plies below the root and at most d symbols placed by the search are on the
   board; a call returns a heuristic score only d plies below the root; and
   the root call returns what the search of the active player's depth alone
   returns on the board, whatever the depth of the other player. *)
C18_OwnDepth ==
  (pc = "search" /\ time_left = -1 /\ ActivePlayer.depth >= 1)
    => /\ stack[1].depth = ActivePlayer.depth
       /\ Len(stack) <= ActivePlayer.depth + 1
       /\ \A m \in 1..Len(stack) : stack[m].depth = ActivePlayer.depth - (m - 1)
       /\ Count(board, "X") + Count(board, "O")
            = Count(stack[1].entry, "X") + Count(stack[1].entry, "O") + Len(stack) - 1
       /\ (Top.phase = "ret" /\ Top.x = -1 /\ ScanEnd(board, s) = "none")
            => (Top.depth = 0 /\ Len(stack) = ActivePlayer.depth + 1)
       /\ (Len(stack) = 1 /\ Top.phase = "ret")
            => \A r \in {IF ActivePlayer.algo = "minimax"
                         THEN minimax(board, s, Top.max, ActivePlayer.depth)
                         ELSE alphabeta(board, s, -2 * One(s), 2 * One(s),
                                        Top.max, ActivePlayer.depth)} :
                 /\ Top.value = r.v
                 /\ Top.x = r.x
                 /\ Top.y = r.y

(* a search without time limit of a player whose depth is not the other
   player's stands on a heuristic leaf as many plies below the root as the
   player's depth, which is more than one *)
C18_Witness ==
  /\ pc = "search"
  /\ time_left = -1
  /\ player_x.depth # player_o.depth
  /\ ActivePlayer.depth >= 2
  /\ Len(stack) = ActivePlayer.depth + 1
  /\ Top.phase = "ret"
  /\ Top.x = -1
  /\ Top.depth = 0
  /\ ScanEnd(board, s) = "none"

(* the cache after holds every entry of the cache before *)
Keeps(before, after) ==
  /\ DOMAIN before \subseteq DOMAIN after
  /\ \A k \in DOMAIN before : after[k] = before[k]

(* the cell (i, j) is one of the configured blocs *)
IsBloc(bl, i, j) == \E m \in 1..Len(bl) : bl[m] = <<i, j>>

(* C21: when check_end finds a win or a tie and returns, the board is made
   anew (every cell '.', except the cells of the configured blocs, which are
   '*') and the caches state_end, state_lines and state_eval1 are empty, and
   it returns whenever a scan of the board finds the game over and is_end
   does not raise; when it finds the game going on, the board is unchanged
   and the caches keep every entry they had (is_end adds the entry of the
   board it scanned). state_eval2 is assigned only in initialize_game
   (line 193) and is empty throughout. *)
C21_ResetOnEnd ==
  [][pc = "check" =>
       /\ (ScanEnd(board, s) # "none" /\ pc' # "AttributeError") =>
            /\ pc' = "done"
            /\ result' = ScanEnd(board, s)
            /\ \A i \in 1..n, j \in 1..n :
                 board'[i][j] = IF IsBloc(blocs, i - 1, j - 1) THEN "*" ELSE "."
            /\ state_end' = <<>>
            /\ state_lines' = <<>>
            /\ state_eval1' = <<>>
       /\ ScanEnd(board, s) = "none" =>
            /\ pc' \in {"turn", "input"}
            /\ board' = board
            /\ Keeps(state_end, state_end')
            /\ Keeps(state_lines, state_lines')
            /\ state_eval1' = state_eval1]_vars

(* a tie reported after searches filled the caches: the board is made anew *)
C21_Witness ==
  /\ pc = "done"
  /\ result = "."
  /\ turn_stats # NoStats
  /\ Count(board, "*") = 4
  /\ Count(board, ".") = 5
  /\ state_end = <<>>

(* C23: the cells holding '*' are the same before and after every step of
   Game.play and of its searches (a call entered, a call returned, a move
   placed for an AI or a human, the reset of check_end with the same blocs):
   no cell holding '*' is written and no cell becomes '*'. *)
C23_BlocsFixed ==
  [][\A i \in 1..n, j \in 1..n :
       (board[i][j] = "*") <=> (board'[i][j] = "*")]_vars

(* two plies down in a search of a game under way, the searches having
   filled all but at most one of the cells that are not blocs *)
C23_Witness ==
  /\ pc = "search"
  /\ Len(stack) = 3
  /\ Count(board, ".") <= 1
  /\ Count(stack[1].entry, ".") = 3
  /\ \A m \in 1..Len(blocs) : board[blocs[m][1] + 1][blocs[m][2] + 1] = "*"
  /\ Count(board, "*") = Len(blocs)

(* C26: in every run of Game.play, two humans without recommendations
   included, check_end on a board with a completed winning line reports the
   win of that symbol and play returns: is_end does not end on the
   AttributeError of a turn_stats that was never created. *)
C26_WinReported ==
  [][(pc = "check" /\ ScanEnd(board, s) \in {"X", "O"}) =>
       /\ pc' = "done"
       /\ pc' # "AttributeError"
       /\ result' = ScanEnd(board, s)]_vars

(* C27: every call of minimax or alphabeta entered on a board that is_end
   finds finished (X win, O win or tie) adds exactly one to
   turn_stats.end_count, and one to end_cache_hit exactly when the verdict
   came from state_end; a call entered on an unfinished board leaves both
   counts. The root call starts from the fresh TurnStats of line 583. *)
C27_EndCount ==
  [][(pc \in {"turn", "search"} /\ pc' = "search"
        /\ Len(stack') = Len(stack) + 1) =>
       LET before == IF pc = "turn" THEN TurnStats ELSE turn_stats
           ended == IF ScanEnd(board', s) # "none" THEN 1 ELSE 0
           hit == IF board' \in DOMAIN state_end THEN ended ELSE 0
       IN /\ turn_stats'.end_count = before.end_count + ended
          /\ turn_stats'.end_cache_hit = before.end_cache_hit + hit]_vars

(***************************************************************************)
(* SpecSwap: is_end as a function of the board. A Game is constructed with *)
(* one of the configurations of SwapConfigs and given turn_stats; its      *)
(* first MaxFill cells that are not blocked are set to any of '.', 'X' and *)
(* 'O' (current_state is assigned, as the searches assign it); is_end is   *)
(* called on the board, every X and O of the board is exchanged, and       *)
(* is_end is called again.                                                 *)
(***************************************************************************)
MaxFill == 8

SwapConfigs ==
  { [n |-> 3, s |-> 3, blocs |-> <<>>],
    [n |-> 3, s |-> 3, blocs |-> << <<1, 1>> >>],
    [n |-> 6, s |-> 3, blocs |-> <<>>] }

(* the board b with its k-th Empty cell, in the order of the cell numbers,
   set to f[k] *)
Filled(b, f) ==
  [i \in 1..Len(b) |-> [j \in 1..Len(b) |->
    LET m == (i - 1) * Len(b) + (j - 1)
        k == Cardinality({o \in FreeCells(b) : o < m}) + 1
    IN IF b[i][j] = "." /\ k <= Len(f) THEN f[k] ELSE b[i][j]]]

(* X for O and O for X *)
SwapSymbol(c) == IF c = "X" THEN "O" ELSE IF c = "O" THEN "X" ELSE c

Swapped(b) == [i \in 1..Len(b) |-> [j \in 1..Len(b) |-> SwapSymbol(b[i][j])]]

InitSwap ==
  /\ \E c \in SwapConfigs, f \in [1..MaxFill -> {".", "X", "O"}] :
       /\ n = c.n
       /\ s = c.s
       /\ blocs = c.blocs
       /\ err = validate(c.n, c.s, c.blocs)
       /\ board = Filled(initialize_game(c.n, c.blocs), f)
  /\ result = "unset"
  /\ eval_res = NoEval
  /\ mm_res = NoRes
  /\ ab_res = NoRes
  /\ state_end = <<>>
  /\ state_lines = <<>>
  /\ state_eval1 = <<>>
  /\ turn_stats = TurnStats
  /\ stack = <<>>
  /\ pc = "idle"
  /\ active_player = "X"
  /\ player_x = Player("X", FALSE, 5, "alphabeta")
  /\ player_o = Player("O", FALSE, 5, "alphabeta")
  /\ recommend = TRUE
  /\ time_left = -1
  /\ move = NoMove

(* the call e of is_end returned: result keeps what it returned *)
SwapChecked(e) ==
  /\ result' = e.result
  /\ state_end' = e.state_end
  /\ state_lines' = e.state_lines
  /\ turn_stats' = e.turn_stats

(* is_end() on the board *)
SwapCheck ==
  /\ pc = "idle"
  /\ result = "unset"
  /\ SwapChecked(is_end(board, s, state_end, state_lines, turn_stats, NoDepth))
  /\ UNCHANGED <<n, s, blocs, board, err, eval_res, mm_res, ab_res>>
  /\ UNCHANGED <<stack, state_eval1, pc, active_player, player_x, player_o,
                 recommend, time_left, move>>

(* every X of current_state becomes an O and every O an X *)
SwapAll ==
  /\ pc = "idle"
  /\ result # "unset"
  /\ board' = Swapped(board)
  /\ pc' = "swapped"
  /\ UNCHANGED <<n, s, blocs, err, result, eval_res, mm_res, ab_res>>
  /\ UNCHANGED <<stack, state_end, state_lines, state_eval1, turn_stats,
                 active_player, player_x, player_o, recommend, time_left, move>>

NextSwap == SwapCheck \/ SwapAll

SpecSwap == InitSwap /\ [][NextSwap]_vars

(* C11: for every board, is_end on the board with every X and O exchanged
   returns O where it returned X on the board, X where it returned O, and the
   same tie or None where it returned a tie or None. *)
C11_SwapSymmetric ==
  pc = "swapped"
    => is_end(board, s, state_end, state_lines, turn_stats, NoDepth).result
         = SwapSymbol(result)

(***************************************************************************)
(* SpecWide: a game on the 10x10 board with winning length 3 and the 20    *)
(* blocs of WideTarget. X plays on the cells that hold X in WideTarget and *)
(* O on those that hold O: each player takes its cells in row-major order, *)
(* and its last WideFree cells in any order. No run of 3 is on WideTarget, *)
(* so the game goes on after every move. On the positions with at most     *)
(* WideEmpty Empty cells a root call of minimax with depth 1 may be made   *)
(* for the side to move.                                                   *)
(***************************************************************************)
WideTarget ==
  << <<"O", "O", "X", "O", "O", ".", "O", "O", "X", ".">>,
     <<"O", "O", "X", "O", "O", "X", "O", "O", "*", "X">>,
     <<"X", ".", "*", ".", "X", "*", "X", "*", "X", ".">>,
     <<"O", "O", "X", "O", "O", ".", "O", "O", ".", ".">>,
     <<"O", "O", "*", "O", "O", "X", "O", "O", ".", "X">>,
     <<"X", "*", "X", "X", "*", ".", ".", "X", ".", "*">>,
     <<"X", "*", "*", "O", "O", ".", ".", ".", ".", "X">>,
     <<"*", "X", "X", "O", "O", ".", "X", "*", "X", ".">>,
     <<"X", "*", "*", ".", ".", "*", "*", "*", "*", "*">>,
     <<"X", "X", "*", "X", ".", ".", "X", ".", ".", "X">> >>

WideFree == 4
WideEmpty == 26
WideDepth == 1

(* the numbers of the cells of WideTarget that hold sym *)
WideCells(sym) ==
  {k \in 0..(Len(WideTarget) * Len(WideTarget) - 1) : Cell(WideTarget, k) = sym}

(* the blocs given to Game.__init__: the blocked cells of WideTarget as
   (row, column), in row-major order *)
WideBlocs ==
  [m \in 1..Cardinality(WideCells("*")) |->
    LET k == CHOOSE c \in WideCells("*") :
               Cardinality({o \in WideCells("*") : o < c}) = m - 1
    IN <<k \div Len(WideTarget), k % Len(WideTarget)>>]

InitWide ==
  /\ n = Len(WideTarget)
  /\ s = DefaultS
  /\ blocs = WideBlocs
  /\ err = validate(Len(WideTarget), DefaultS, WideBlocs)
  /\ board = initialize_game(Len(WideTarget), WideBlocs)
  /\ result = "unset"
  /\ eval_res = NoEval
  /\ mm_res = NoRes
  /\ ab_res = NoRes
  /\ NoPlay

(* the cells the side to move chooses from *)
WideChoice(b) ==
  LET left == {k \in WideCells(Turn(b)) : Cell(b, k) = "."}
  IN IF Cardinality(left) > WideFree THEN {Least(left)} ELSE left

(* Game.play, lines 576-611: check_end finds the game going on and the
   active player moves *)
WideMove ==
  /\ ScanEnd(board, s) = "none"
  /\ \E k \in WideChoice(board) :
       /\ is_valid(board, k \div n, k % n)
       /\ board' = Put(board, k \div n, k % n, Turn(board))
  /\ mm_res' = NoRes
  /\ UNCHANGED <<n, s, blocs, err, result, eval_res, ab_res>>
  /\ UNCHANGED play_vars

(* a root call of minimax for the side to move: Game.play, lines 585-588 *)
WideSearch ==
  /\ mm_res = NoRes
  /\ ScanEnd(board, s) = "none"
  /\ Count(board, ".") <= WideEmpty
  /\ mm_res' = [d |-> WideDepth, max |-> Turn(board) = "O",
                r |-> minimax(board, s, Turn(board) = "O", WideDepth)]
  /\ UNCHANGED <<n, s, blocs, board, err, result, eval_res, ab_res>>
  /\ UNCHANGED play_vars

NextWide == WideMove \/ WideSearch

SpecWide == InitWide /\ [][NextWide]_vars

(* the score the call of minimax for the other side returns on the child of
   b reached by the move of sym on the cell k, with the depth left *)
ChildScore(b, k, sym, depth) ==
  minimax(Put(b, k \div Len(b), k % Len(b), sym), s, sym = "X", depth - 1).v

(* the best of the scores of the children: the largest for O (max), the
   smallest for X *)
BestScore(b, sym, depth) ==
  LET V == {ChildScore(b, k, sym, depth) : k \in FreeCells(b)}
  IN CHOOSE v \in V : \A w \in V : IF sym = "O" THEN v >= w ELSE v <= w

(* C15: a root call of minimax with depth at least 1 on a position where the
   game goes on returns the best score of its children (the largest when max,
   the smallest otherwise) and the first cell in row-major order whose child
   has that score. *)
C15_BestChild ==
  (mm_res # NoRes /\ mm_res.d >= 1 /\ ScanEnd(board, s) = "none")
    => \A best \in {BestScore(board, Turn(board), mm_res.d)} :
         /\ mm_res.r.v = best
         /\ mm_res.r.x # -1
         /\ mm_res.r.x * n + mm_res.r.y
              = Least({k \in FreeCells(board) :
                         ChildScore(board, k, Turn(board), mm_res.d) = best})

(***************************************************************************)
(* SpecHeur: the two heuristics as functions of the board. Games are       *)
(* played move by move on the configurations of BoardConfigs, up to        *)
(* HeurPieces pieces; on every position where the game goes on, e1() and   *)
(* e2() may be called.                                                     *)
(***************************************************************************)
HeurPieces == 4

(* BLOCK_WEIGHT, line 514 *)
BLOCK_WEIGHT == 5

(* the body of the loops of lines 520-526 and 528-534 from position m of the
   line on, in units of UNIT: prev is '?' when the loop starts and the loop
   assigns nothing to it *)
RECURSIVE E2Pass(_, _, _)
E2Pass(line, m, prev) ==
  IF m > Len(line) THEN 0
  ELSE (IF line[m] = prev /\ line[m] = "X" THEN -1 ELSE 0)
       + (IF line[m] = prev /\ line[m] = "O" THEN 1
          ELSE IF ~(line[m] = prev) THEN BLOCK_WEIGHT ELSE 0)
       + E2Pass(line, m + 1, prev)

(* reversed(line) *)
Reversed(line) == [m \in 1..Len(line) |-> line[Len(line) + 1 - m]]

RECURSIVE E2Lines(_, _)
E2Lines(ls, k) ==
  IF k > Len(ls) THEN 0
  ELSE E2Pass(ls[k], 1, "?") + E2Pass(Reversed(ls[k]), 1, "?")
       + E2Lines(ls, k + 1)

(* Game.e2 in units of UNIT = 100^-s *)
e2(b, ss) == E2Lines(Lines(b, ss), 1)

(* Game.play, lines 598-611, both players human and recommend off *)
HeurMove ==
  /\ result = "none"
  /\ Count(board, "X") + Count(board, "O") < HeurPieces
  /\ \E i \in 0..(n - 1), j \in 0..(n - 1) :
       /\ is_valid(board, i, j)
       /\ board' = Put(board, i, j, Turn(board))
  /\ result' = "unset"
  /\ eval_res' = NoEval
  /\ UNCHANGED <<n, s, blocs, err, mm_res, ab_res>>
  /\ UNCHANGED play_vars

(* the calls e1() (maximize None, so nothing is added to the raw score) and
   e2() on the board: the values returned, e1 times 10^s and e2 in units of
   UNIT *)
HeurEval ==
  /\ result = "none"
  /\ eval_res = NoEval
  /\ eval_res' = [e1 |-> RawE1(board, s), e2 |-> e2(board, s)]
  /\ UNCHANGED <<n, s, blocs, board, err, result, mm_res, ab_res>>
  /\ UNCHANGED play_vars

NextHeur == BCheckEnd \/ HeurMove \/ HeurEval

SpecHeur == InitBoards /\ [][NextHeur]_vars

(* the board b with the cells c and d, given as (row, column) from 1, set
   to sym *)
WithCells(b, c, d, sym) == [b EXCEPT ![c[1]][c[2]] = sym, ![d[1]][d[2]] = sym]

(* C19: a board on which two cells next to one another in a line both hold X
   scores strictly lower with e2 than the same board with O on those two
   cells. *)
C19_DefensiveOrder ==
  eval_res # NoEval
    => \A k \in 1..Len(Geometry[n][s]) :
         \A m \in 1..(Len(Geometry[n][s][k]) - 1) :
           \A c \in {Geometry[n][s][k][m]}, d \in {Geometry[n][s][k][m + 1]} :
             (board[c[1]][c[2]] = "X" /\ board[d[1]][d[2]] = "X")
               => eval_res.e2 < e2(WithCells(board, c, d, "O"), s)

(* C20: when a line holds an X or an O next to a Blocked cell, the raw score
   of e1 is not the raw score of the same board with that Blocked cell
   Empty. *)
C20_BlockBonus ==
  eval_res # NoEval
    => \A k \in 1..Len(Geometry[n][s]) :
         \A m \in 1..(Len(Geometry[n][s][k]) - 1) :
           \A c \in {Geometry[n][s][k][m]}, d \in {Geometry[n][s][k][m + 1]} :
             /\ (board[c[1]][c[2]] = "*" /\ board[d[1]][d[2]] \in {"X", "O"})
                  => eval_res.e1 # RawE1(WithCells(board, c, c, "."), s)
             /\ (board[d[1]][d[2]] = "*" /\ board[c[1]][c[2]] \in {"X", "O"})
                  => eval_res.e1 # RawE1(WithCells(board, d, d, "."), s)

(***************************************************************************)
(* SpecSeries: Game.play called again and again on one Game with the same  *)
(* two AI Player objects, as the tournament of main does (lines 638-685):  *)
(* the objects are passed as (player_x, player_o) or in swapped roles, and *)
(* Game.tweak may change the blocs between two calls. A call ends on a win *)
(* or a tie ("done"), on the break of a time forfeit ("lost") or on an     *)
(* exception. The board is 3x3 with winning length 3.                      *)
(***************************************************************************)
SeriesDepth == 1

(* the lists of blocs Game.tweak is called with; (3, 0) is off the board *)
SeriesBlocs ==
  {PlayBlocs,
   <<<<0, 0>>, <<0, 1>>, <<0, 2>>, <<2, 0>>, <<2, 2>>, <<3, 0>>>>}

(* lines 640-641 and 558-565: the two Player objects of the tournament,
   Player('X', AI) and Player('O', AI), with the algorithm and the depth
   Game.play gave them; both evaluate with e1, the default of Player *)
PlayerObjX == Player("X", FALSE, SeriesDepth, "alphabeta")
PlayerObjO == Player("O", FALSE, SeriesDepth, "alphabeta")

InitSeries ==
  /\ n = DefaultN
  /\ s = DefaultS
  /\ blocs = PlayBlocs
  /\ board = initialize_game(DefaultN, PlayBlocs)
  /\ err = "ok"
  /\ result = "unset"
  /\ eval_res = NoEval
  /\ mm_res = NoRes
  /\ ab_res = NoRes
  /\ NoCaches
  /\ stack = <<>>
  /\ pc = "idle"
  /\ active_player = "X"
  /\ player_x = PlayerObjX
  /\ player_o = PlayerObjO
  /\ recommend = TRUE
  /\ time_left = -1
  /\ move = NoMove

(* Game.tweak(blocs=...), lines 150-154: the attributes are assigned and
   nothing else is done *)
Tweak ==
  /\ pc \in {"idle", "done", "lost"}
  /\ \E bl \in SeriesBlocs : blocs' = bl
  /\ UNCHANGED <<n, s, board, err, result, eval_res, mm_res, ab_res>>
  /\ UNCHANGED play_vars

(* lines 551-573: a call of Game.play, player_x being the first argument
   (either Player object) and the active player; the loop starts with
   check_end on the board as it is *)
StartPlay ==
  /\ pc \in {"idle", "done", "lost"}
  /\ \E swapped \in BOOLEAN :
       /\ player_x' = IF swapped THEN PlayerObjO ELSE PlayerObjX
       /\ player_o' = IF swapped THEN PlayerObjX ELSE PlayerObjO
  /\ active_player' = "X"
  /\ pc' = "check"
  /\ UNCHANGED <<n, s, blocs, board, err, result, eval_res, mm_res, ab_res>>
  /\ UNCHANGED <<stack, state_end, state_lines, state_eval1, turn_stats,
                 recommend, time_left, move>>

NextSeries ==
  \/ Tweak
  \/ StartPlay
  \/ CheckEnd
  \/ BeginSearch
  \/ Descend
  \/ Return
  \/ EndSearch
  \/ PlaceMove

SpecSeries == InitSeries /\ [][NextSeries]_vars

(* C24: at the start of every call of Game.play, whatever came before on the
   Game (a win, a tie, a time forfeit, a call of Game.tweak), the board holds
   no X and no O and its '*' cells are the in-bounds cells of Game.blocs. *)
C24_FreshBoard ==
  [][(pc \in {"idle", "done", "lost"} /\ pc' = "check") =>
       \A i \in 1..n, j \in 1..n :
         board[i][j] = IF IsBloc(blocs, i - 1, j - 1) THEN "*" ELSE "."]_vars

(* C25: in every call of Game.play, swapped roles included, the symbol the
   move of an AI is written with is the symbol its search placed for the
   root mover ('O' exactly when the root call had max=True, that is when the
   active player is player_o; 'X' otherwise), and after the move the number
   of X on the board minus the number of O is 0 or 1. *)
C25_RootSymbol ==
  [][(pc = "place" /\ pc' = "check") =>
       /\ board' = Put(board, move.x, move.y, Symbol(active_player = "O"))
       /\ Count(board', "X") - Count(board', "O") \in {0, 1}]_vars

====
